---- MODULE Spec2Model ----
(***************************************************************************)
(* The status service of src/app.py: the module-level load_dotenv(), the   *)
(* Flask skeleton (lines 14-29), the FastAPI skeleton (lines 35-50) and    *)
(* the placeholder main() (lines 55-64).  Exactly one of the three forms   *)
(* is the program's entry point in a run; `form` says which.               *)
(*                                                                         *)
(* Text is modelled as a sequence of one-character strings, so that        *)
(* str.lower(), int() and f-string formatting are computed and not         *)
(* assumed.  The process environment is a function whose domain is the set *)
(* of variables that are set.                                              *)
(***************************************************************************)
EXTENDS Integers, Sequences, FiniteSets, TLC

VARIABLES
    form,        \* which entry point is active: "placeholder", "flask", "fastapi"
    threads,     \* how many requests the HTTP runtime handles at the same time
    environ,     \* os.environ: variable name -> text, for the variables that are set
    unavailable, \* ports the operating system refuses to bind (in use, not permitted)
    pc,          \* "import" (before load_dotenv), "main" (at the __main__ block),
                 \* "run" (blocked in app.run / uvicorn.run), "exit" (process ended)
    config,      \* the locals of the __main__ block: port (and debug), once read
    bound,       \* the ports this process listens on
    exitCode,    \* <<>> while the process lives, <<code>> once it ended
    stdout,      \* the lines printed, each a sequence of tokens
    stderr,      \* the names of the exceptions that reached the top level
    inflight,    \* per runtime thread: <<>> when idle, <<request>> when one is accepted
    seen         \* every <<request, response>> pair that was sent to a client

vars == <<form, threads, environ, unavailable, pc, config, bound, exitCode,
          stdout, stderr, inflight, seen>>

svc == <<form, threads, environ, unavailable, pc, config, bound, exitCode,
         stdout, stderr>>

(***************************************************************************)
(* Bounds of the model.                                                    *)
(***************************************************************************)
NumWorkers == 2

(***************************************************************************)
(* Text.                                                                   *)
(***************************************************************************)
UpperCase == <<"A","B","C","D","E","F","G","H","I","J","K","L","M",
               "N","O","P","Q","R","S","T","U","V","W","X","Y","Z">>

LowerCase == <<"a","b","c","d","e","f","g","h","i","j","k","l","m",
               "n","o","p","q","r","s","t","u","v","w","x","y","z">>

Digits == <<"0","1","2","3","4","5","6","7","8","9">>

IndexOf(seq, c) == CHOOSE i \in 1..Len(seq) : seq[i] = c

InSeq(seq, c) == \E i \in 1..Len(seq) : seq[i] = c

\* str.lower() on one character: only the cased letters change.
LowerChar(c) == IF InSeq(UpperCase, c) THEN LowerCase[IndexOf(UpperCase, c)] ELSE c

\* str.lower()
lower(s) == [i \in 1..Len(s) |-> LowerChar(s[i])]

\* Whether int(s) accepts the text s.  The texts of this model carry no sign,
\* no padding and no underscore, so int() accepts exactly the digit strings.
IsDecimal(s) == Len(s) > 0 /\ \A i \in 1..Len(s) : InSeq(Digits, s[i])

RECURSIVE int(_)
\* int(s) for a text s that int() accepts.
int(s) == IF Len(s) = 0 THEN 0
          ELSE 10 * int(SubSeq(s, 1, Len(s) - 1)) + (IndexOf(Digits, s[Len(s)]) - 1)

(***************************************************************************)
(* The environment.                                                        *)
(***************************************************************************)
Keys == {"PORT", "DEBUG", "ENVIRONMENT"}

PortTexts == {<<"9","0","9","0">>, <<"a","b","c">>}

DebugTexts == {<<"t","r","u","e">>, <<"T","R","U","E">>, <<"n","o">>}

EnvironmentTexts == {<<"p","r","o","d">>}

DotenvPortTexts == {<<"5","0","0","0">>}

TextsOf(k) == CASE k = "PORT" -> PortTexts \cup DotenvPortTexts
                [] k = "DEBUG" -> DebugTexts
                [] k = "ENVIRONMENT" -> EnvironmentTexts

PartialEnvs(ks, port) ==
    { e \in UNION { [D -> PortTexts \cup DotenvPortTexts \cup DebugTexts \cup EnvironmentTexts]
                    : D \in SUBSET ks } :
        \A k \in DOMAIN e : e[k] \in (IF k = "PORT" THEN port ELSE TextsOf(k)) }

\* The environments a process may be started in.
Environments == PartialEnvs(Keys, PortTexts)

\* The .env files load_dotenv() may find: none (or an empty one), or one that sets PORT.
DotenvFiles == PartialEnvs({"PORT"}, DotenvPortTexts)

\* os.getenv(key, default) with a text default.
getenv(key, default) == IF key \in DOMAIN environ THEN environ[key] ELSE default

DefaultPort == 8000

\* The ports the operating system may refuse: none, the default one, the configured one.
UnavailableSets == {{}, {8000}, {9090}}

\* The empty mapping: no variable set, no local assigned.
Empty == [k \in {} |-> <<>>]

(***************************************************************************)
(* HTTP: requests, responses and the two skeletons' routes.                *)
(***************************************************************************)
Request(m, p, q, h) == [method |-> m, path |-> p, query |-> q, headers |-> h]

\* The requests clients send: both routes, with and without query parameters
\* and extra headers, a path no route matches and a method no route accepts.
Requests ==
    { Request("GET", "/health", "", "none"),
      Request("GET", "/health", "verbose=1", "Accept: text/html"),
      Request("GET", "/", "", "none"),
      Request("GET", "/", "page=2", "X-Debug: 1"),
      Request("GET", "/missing", "", "none"),
      Request("POST", "/health", "", "none") }

Response(code, payload) == [status |-> code, body |-> payload]

\* A health view that reports another status word.
health_ok == Response(200, [status |-> "ok", version |-> "1.0.0"])

\* Flask: def health()
health == Response(200, [status |-> "healthy", version |-> "1.0.0"])

\* Flask: def index()
index == Response(200, [message |-> "Welcome to the API"])

\* FastAPI: async def health(); a returned dict is sent with status 200
health_async == Response(200, [status |-> "healthy", version |-> "1.0.0"])

\* A root view left at the framework tutorial's greeting.
root_hello == Response(200, [message |-> "Hello World"])

\* FastAPI: async def root()
root == Response(200, [message |-> "Welcome to the API"])

NotFound == Response(404, [detail |-> "Not Found"])

MethodNotAllowed == Response(405, [detail |-> "Method Not Allowed"])

\* A route table whose views look the environment up on every request.
Dispatch_env(r) ==
    IF r.path \notin {"/health", "/"} THEN NotFound
    ELSE IF r.method # "GET" THEN MethodNotAllowed
    ELSE IF r.path = "/health"
         THEN Response(200, [status |-> "healthy", version |-> "1.0.0",
                             environment |-> getenv("ENVIRONMENT", <<>>)])
         ELSE Response(200, [message |-> "Welcome to the API",
                             environment |-> getenv("ENVIRONMENT", <<>>)])

\* The route table the decorators build: the path alone selects the view (query
\* string and headers play no part), and both routes accept GET.
Dispatch(r) ==
    IF r.path \notin {"/health", "/"} THEN NotFound
    ELSE IF r.method # "GET" THEN MethodNotAllowed
    ELSE IF r.path = "/health"
         THEN (IF form = "flask" THEN health ELSE health_async)
         ELSE (IF form = "flask" THEN index ELSE root)

(***************************************************************************)
(* Start-up.                                                               *)
(***************************************************************************)
Forms == {"placeholder", "flask", "fastapi"}

\* load_dotenv(): the variables of the .env file are added to os.environ; a
\* variable that is already set keeps its value (override=False).
LoadDotenv ==
    /\ pc = "import"
    /\ \E file \in DotenvFiles :
          environ' = [k \in DOMAIN environ \cup DOMAIN file |->
                         IF k \in DOMAIN environ THEN environ[k] ELSE file[k]]
    /\ pc' = "main"
    /\ UNCHANGED <<form, threads, unavailable, config, bound, exitCode,
                   stdout, stderr, inflight, seen>>

\* A port that ignores the environment.
ReadPort_fixed == DefaultPort

\* int(os.getenv('PORT', 8000)), for a PORT that int() accepts
ReadPort == IF "PORT" \in DOMAIN environ THEN int(environ["PORT"]) ELSE DefaultPort

\* A debug flag compared without lower().
ReadDebug_cased == getenv("DEBUG", <<"F","a","l","s","e">>) = <<"t","r","u","e">>

\* os.getenv('DEBUG', 'False').lower() == 'true'
ReadDebug == lower(getenv("DEBUG", <<"F","a","l","s","e">>)) = <<"t","r","u","e">>

\* An exception reaches the top level: nothing in the __main__ block catches it,
\* the interpreter reports it on stderr and the process ends with status 1.
Fail(err) ==
    /\ pc' = "exit"
    /\ exitCode' = <<1>>
    /\ stderr' = Append(stderr, err)

\* A run that reports the failed bind and falls back to the next port.
run_fallback(port) ==
    IF port \in unavailable
    THEN /\ pc' = "run" /\ bound' = {port + 1}
         /\ stderr' = Append(stderr, "BindError") /\ UNCHANGED exitCode
    ELSE pc' = "run" /\ bound' = {port} /\ UNCHANGED <<exitCode, stderr>>

\* app.run(host='0.0.0.0', port=port, ...) / uvicorn.run(app, host='0.0.0.0', port=port):
\* one attempt to bind the port; then the call blocks, serving.
run(port) ==
    IF port \in unavailable
    THEN Fail("BindError") /\ bound' = bound
    ELSE pc' = "run" /\ bound' = {port} /\ UNCHANGED <<exitCode, stderr>>

\* The Flask skeleton's __main__ block.
StartFlask ==
    /\ pc = "main"
    /\ form = "flask"
    /\ IF "PORT" \in DOMAIN environ /\ ~IsDecimal(environ["PORT"])
       THEN Fail("ValueError") /\ UNCHANGED <<config, bound>>
       ELSE /\ config' = [port |-> ReadPort, debug |-> ReadDebug]
            /\ run(ReadPort)
    /\ UNCHANGED <<form, threads, environ, unavailable, stdout, inflight, seen>>

\* The FastAPI skeleton's __main__ block.
StartFastAPI ==
    /\ pc = "main"
    /\ form = "fastapi"
    /\ IF "PORT" \in DOMAIN environ /\ ~IsDecimal(environ["PORT"])
       THEN Fail("ValueError") /\ UNCHANGED <<config, bound>>
       ELSE /\ config' = [port |-> ReadPort]
            /\ run(ReadPort)
    /\ UNCHANGED <<form, threads, environ, unavailable, stdout, inflight, seen>>

\* A main that falls back to Flask's own default port.
main_5000 ==
    /\ pc = "main"
    /\ form = "placeholder"
    /\ stdout' = stdout \o
          << <<"Python Web Application">>,
             <<"Please uncomment and configure your chosen framework above.">>,
             <<"Environment: ">> \o getenv("ENVIRONMENT",
                    <<"d","e","v","e","l","o","p","m","e","n","t">>),
             <<"Port: ">> \o getenv("PORT", <<"5","0","0","0">>) >>
    /\ pc' = "exit"
    /\ exitCode' = <<0>>
    /\ UNCHANGED <<form, threads, environ, unavailable, config, bound, stderr,
                   inflight, seen>>

\* The placeholder: def main(), called by the last __main__ block; then the
\* module ends and the process exits with status 0.
main ==
    /\ pc = "main"
    /\ form = "placeholder"
    /\ stdout' = stdout \o
          << <<"Python Web Application">>,
             <<"Please uncomment and configure your chosen framework above.">>,
             <<"Environment: ">> \o getenv("ENVIRONMENT",
                    <<"d","e","v","e","l","o","p","m","e","n","t">>),
             <<"Port: ">> \o getenv("PORT", <<"8","0","0","0">>) >>
    /\ pc' = "exit"
    /\ exitCode' = <<0>>
    /\ UNCHANGED <<form, threads, environ, unavailable, config, bound, stderr,
                   inflight, seen>>

(***************************************************************************)
(* The running process.                                                    *)
(***************************************************************************)
\* os.environ[k] = v while the process runs.
SetEnv(k, v) ==
    /\ pc \in {"main", "run"}
    /\ v \in TextsOf(k)
    /\ getenv(k, <<>>) # v
    /\ environ' = [x \in DOMAIN environ \cup {k} |-> IF x = k THEN v ELSE environ[x]]
    /\ UNCHANGED <<form, threads, unavailable, pc, config, bound, exitCode,
                   stdout, stderr, inflight, seen>>

\* del os.environ[k] while the process runs.
UnsetEnv(k) ==
    /\ pc \in {"main", "run"}
    /\ k \in DOMAIN environ
    /\ environ' = [x \in DOMAIN environ \ {k} |-> environ[x]]
    /\ UNCHANGED <<form, threads, unavailable, pc, config, bound, exitCode,
                   stdout, stderr, inflight, seen>>

\* The exit statuses of a process ended by a signal while it serves: a handled
\* interrupt, SIGINT, SIGTERM.
TermCodes == {0, 130, 143}

\* A termination that starts the entry point over instead of ending the process.
Terminate_restart ==
    /\ pc = "run"
    /\ pc' = "main"
    /\ bound' = {}
    /\ inflight' = [w \in DOMAIN inflight |-> <<>>]
    /\ UNCHANGED <<form, threads, environ, unavailable, config, exitCode, stdout,
                   stderr, seen>>

\* A termination signal ends the blocking run call and the process with it.
Terminate ==
    /\ pc = "run"
    /\ pc' = "exit"
    /\ \E code \in TermCodes : exitCode' = <<code>>
    /\ bound' = {}
    /\ inflight' = [w \in DOMAIN inflight |-> <<>>]
    /\ UNCHANGED <<form, threads, environ, unavailable, config, stdout, stderr, seen>>

\* The runtime accepts a connection on the bound port and reads the request.
Accept(w, r) ==
    /\ pc = "run"
    /\ inflight[w] = <<>>
    /\ inflight' = [inflight EXCEPT ![w] = <<r>>]
    /\ UNCHANGED <<svc, seen>>

\* A handler that greets differently once something was served: a response
\* that depends on a count the service keeps.
Handle_counting(w) ==
    /\ pc = "run"
    /\ inflight[w] # <<>>
    /\ seen' = seen \cup
          {<<inflight[w][1],
             IF seen = {} THEN Dispatch(inflight[w][1])
             ELSE Response(200, [message |-> "Welcome back"])>>}
    /\ inflight' = [inflight EXCEPT ![w] = <<>>]
    /\ UNCHANGED svc

\* A handler that reads the request from a slot all threads share: it answers
\* the request of whichever thread wrote the slot last.
Handle_shared(w) ==
    /\ pc = "run"
    /\ inflight[w] # <<>>
    /\ \E v \in DOMAIN inflight :
          /\ inflight[v] # <<>>
          /\ seen' = seen \cup {<<inflight[w][1], Dispatch(inflight[v][1])>>}
    /\ inflight' = [inflight EXCEPT ![w] = <<>>]
    /\ UNCHANGED svc

\* The routed view function runs and its return value is sent to the client.
Handle(w) ==
    /\ pc = "run"
    /\ inflight[w] # <<>>
    /\ seen' = seen \cup {<<inflight[w][1], Dispatch(inflight[w][1])>>}
    /\ inflight' = [inflight EXCEPT ![w] = <<>>]
    /\ UNCHANGED svc

(***************************************************************************)
(* Specifications.                                                         *)
(***************************************************************************)
Boot ==
    /\ pc = "import"
    /\ config = Empty
    /\ bound = {}
    /\ exitCode = <<>>
    /\ stdout = <<>>
    /\ stderr = <<>>
    /\ inflight = [w \in 1..threads |-> <<>>]
    /\ seen = {}

\* Any form, started in any environment, serving one request at a time.
Init ==
    /\ form \in Forms
    /\ threads = 1
    /\ environ \in Environments
    /\ unavailable \in UnavailableSets
    /\ Boot

Next ==
    \/ LoadDotenv
    \/ StartFlask
    \/ StartFastAPI
    \/ main
    \/ \E k \in Keys : \E v \in TextsOf(k) : SetEnv(k, v)
    \/ \E k \in Keys : UnsetEnv(k)
    \/ Terminate
    \/ \E w \in DOMAIN inflight : \E r \in Requests : Accept(w, r)
    \/ \E w \in DOMAIN inflight : Handle(w)

Spec == Init /\ [][Next]_vars

\* The environments of the concurrent runs: nothing set, and everything set.
ServeEnvironments ==
    { Empty,
      [k \in Keys |-> CASE k = "PORT" -> <<"9","0","9","0">>
                        [] k = "DEBUG" -> <<"T","R","U","E">>
                        [] k = "ENVIRONMENT" -> <<"p","r","o","d">>] }

\* A fixed environment, the runtime handling NumWorkers requests at the same time.
InitServe ==
    /\ form \in Forms
    /\ threads = NumWorkers
    /\ environ \in ServeEnvironments
    /\ unavailable \in UnavailableSets
    /\ Boot

NextServe ==
    \/ LoadDotenv
    \/ StartFlask
    \/ StartFastAPI
    \/ main
    \/ Terminate
    \/ \E w \in DOMAIN inflight : \E r \in Requests : Accept(w, r)
    \/ \E w \in DOMAIN inflight : Handle(w)

SpecServe == InitServe /\ [][NextServe]_vars

(***************************************************************************)
(* The lifecycle of the service, in the specification's words.             *)
(***************************************************************************)
State == CASE pc \in {"import", "main"} -> "Unstarted"
           [] pc = "run" -> "Listening"
           [] pc = "exit" -> "Stopped"

\* The exit codes as exitCode holds them.
SignalExits == { <<c>> : c \in TermCodes }

IsGet(r, path) == r.method = "GET" /\ r.path = path

(***************************************************************************)
(* C1: every GET /health, whatever its headers and query parameters and    *)
(* whatever was served before it, is answered with status 200 and the body *)
(* {status: "healthy", version: "1.0.0"}.                                  *)
(***************************************************************************)
HealthAlwaysHealthy ==
    \A s \in seen :
        IsGet(s[1], "/health") =>
            /\ s[2].status = 200
            /\ s[2].body = [status |-> "healthy", version |-> "1.0.0"]

\* Both GET /health requests (plain, and with query and headers) were answered,
\* after other requests were.
HealthServedTwiceAmongOthers ==
    /\ Cardinality({ s \in seen : IsGet(s[1], "/health") }) = 2
    /\ \E s \in seen : s[1].path = "/missing"
    /\ \E s \in seen : s[1].path = "/"

(***************************************************************************)
(* C2: every GET /, whatever was served before it, is answered with status *)
(* 200 and the body {message: "Welcome to the API"}.                       *)
(***************************************************************************)
IndexAlwaysWelcomes ==
    \A s \in seen :
        IsGet(s[1], "/") =>
            /\ s[2].status = 200
            /\ s[2].body = [message |-> "Welcome to the API"]

\* GET / was answered after GET /health and a POST were.
IndexServedAmongOthers ==
    /\ \E s \in seen : IsGet(s[1], "/") /\ s[1].query # ""
    /\ \E s \in seen : IsGet(s[1], "/health")
    /\ \E s \in seen : s[1].method = "POST"

(***************************************************************************)
(* C3: the step that starts the listener binds port 8000 when PORT is      *)
(* unset, and the port PORT names when PORT is an integer string: 9090 for *)
(* "9090", 5000 for "5000".                                                *)
(***************************************************************************)
PortDefaulting ==
    [][ (pc = "main" /\ pc' = "run") =>
          /\ "PORT" \notin DOMAIN environ => bound' = {8000}
          /\ ("PORT" \in DOMAIN environ /\ environ["PORT"] = <<"9","0","9","0">>)
                => bound' = {9090}
          /\ ("PORT" \in DOMAIN environ /\ environ["PORT"] = <<"5","0","0","0">>)
                => bound' = {5000} ]_vars

\* The service listens on 9090 because PORT says so.
ListeningOnConfiguredPort ==
    /\ pc = "run"
    /\ bound = {9090}
    /\ "PORT" \in DOMAIN environ
    /\ environ["PORT"] = <<"9","0","9","0">>

(***************************************************************************)
(* C4: when the configured port cannot be bound, start fails with          *)
(* BindError, the process ends with a non-zero exit code, the failure is   *)
(* not retried and no request is served in that run.                       *)
(***************************************************************************)
BindFailureIsFatal ==
    /\ [][ (pc = "main" /\ pc' # "main" /\ "port" \in DOMAIN config'
               /\ config'.port \in unavailable) =>
             /\ pc' = "exit"
             /\ stderr' = <<"BindError">>
             /\ exitCode' # <<>> /\ exitCode' # <<0>> ]_vars
    /\ [](InSeq(stderr, "BindError") =>
             /\ pc = "exit"
             /\ exitCode # <<>> /\ exitCode # <<0>>
             /\ bound = {}
             /\ seen = {}
             /\ \A w \in DOMAIN inflight : inflight[w] = <<>>)

\* PORT=9090 is taken by another process and the start failed.
StartFailedOnOccupiedPort ==
    /\ pc = "exit"
    /\ stderr = <<"BindError">>
    /\ "port" \in DOMAIN config
    /\ config.port = 9090
    /\ 9090 \in unavailable

TrueTexts ==
    { <<a, b, c, d>> : a \in {"t", "T"}, b \in {"r", "R"}, c \in {"u", "U"}, d \in {"e", "E"} }

DebugIsCaseInsensitiveTrue ==
    [][ (pc = "main" /\ "debug" \in DOMAIN config') =>
          config'.debug = ("DEBUG" \in DOMAIN environ /\ environ["DEBUG"] \in TrueTexts) ]_vars

\* Flask listens with debug on because DEBUG=TRUE.
DebugOnFromUpperCase ==
    /\ form = "flask"
    /\ pc = "run"
    /\ config.debug = TRUE
    /\ "DEBUG" \in DOMAIN environ
    /\ environ["DEBUG"] = <<"T","R","U","E">>

(***************************************************************************)
(* C7: all the responses ever sent to one and the same request are         *)
(* identical, however often it is issued and whatever is served in         *)
(* between, and serving a request changes no state of the service.         *)
(***************************************************************************)
RequestsAreIdempotent ==
    /\ [](\A s \in seen : \A t \in seen : s[1] = t[1] => s[2] = t[2])
    /\ [][ ((seen' # seen \/ inflight' # inflight) /\ pc' = "run") => svc' = svc ]_vars

\* A request that was answered before is being served again, other requests
\* having been answered in between.
RequestRepeated ==
    /\ \E w \in DOMAIN inflight :
          /\ inflight[w] # <<>>
          /\ \E s \in seen : s[1] = inflight[w][1]
    /\ Cardinality(seen) >= 3

ConfigurationIsImmutable ==
    /\ [](pc = "run" => ("port" \in DOMAIN config /\ bound = {config.port}))
    /\ [][ config # Empty => config' = config ]_vars
    /\ [][ (pc = "run" /\ pc' = "run") => bound' = bound ]_vars
    /\ [](\A s \in seen : \A t \in seen : s[1] = t[1] => s[2] = t[2])

\* The service still listens on the default port although PORT was set to
\* 9090 and ENVIRONMENT to prod after start-up, and requests were served.
EnvironmentChangedAfterStart ==
    /\ pc = "run"
    /\ bound = {8000}
    /\ "PORT" \in DOMAIN environ /\ environ["PORT"] = <<"9","0","9","0">>
    /\ "ENVIRONMENT" \in DOMAIN environ
    /\ Cardinality(seen) >= 2

(***************************************************************************)
(* C10: a GET /health or GET / that is handled while another request is in *)
(* flight is answered exactly as when it is served alone, and no handler   *)
(* waits for another: an accepted request can always be handled.           *)
(***************************************************************************)
ServedAlone(r) ==
    IF r.path = "/health"
    THEN [status |-> 200, body |-> [status |-> "healthy", version |-> "1.0.0"]]
    ELSE [status |-> 200, body |-> [message |-> "Welcome to the API"]]

ConcurrentAsAlone ==
    /\ [][ \A w \in DOMAIN inflight :
             ( /\ inflight[w] # <<>> /\ inflight'[w] = <<>> /\ pc' = "run"
               /\ (IsGet(inflight[w][1], "/health") \/ IsGet(inflight[w][1], "/"))
               /\ \E v \in DOMAIN inflight : v # w /\ inflight[v] # <<>> )
             => /\ <<inflight[w][1], ServedAlone(inflight[w][1])>> \in seen'
                /\ seen' \ seen \subseteq {<<inflight[w][1], ServedAlone(inflight[w][1])>>} ]_vars
    /\ [](\A w \in DOMAIN inflight :
             (pc = "run" /\ inflight[w] # <<>>) => ENABLED Handle(w))

\* GET / and GET /health are in flight at the same time, others answered before.
TwoRequestsInFlight ==
    /\ \E w \in DOMAIN inflight : \E v \in DOMAIN inflight :
          /\ w # v
          /\ inflight[w] # <<>> /\ IsGet(inflight[w][1], "/")
          /\ inflight[v] # <<>> /\ IsGet(inflight[v][1], "/health")
    /\ seen # {}

====
